---- MODULE Spec2Model ----
(***************************************************************************)
(* unittest-parallel: main() sizes a process pool, partitions the          *)
(* discovered suite into parallelizable test suites, maps run_tests over   *)
(* them with multiprocessing.Pool.map and aggregates the results.          *)
(* ParallelTestManager.run_tests is the per-suite worker invocation; the   *)
(* manager.Event `failfast` is the only state the workers share.           *)
(***************************************************************************)
EXTENDS Integers, Naturals, Sequences, FiniteSets, TLC

VARIABLES
    pc,             \* position of main()
    jobs,           \* args.jobs
    cpu_count,      \* multiprocessing.cpu_count()
    coverage,       \* args.coverage
    failfast_arg,   \* args.failfast
    process_count,  \* process_count of main()
    discover_suite, \* the suite returned by TestLoader.discover
    fixtures,       \* "module" / "class" / "none": args.module_fixtures, args.class_fixtures
    test_suites,    \* the parallelizable test suites
    failfast,       \* ParallelTestManager.failfast (manager.Event)
    taskqueue,      \* chunks of pool.map not yet taken by a pool process
    worker,         \* per pool process: position, chunk, unit, local results
    map_value,      \* the pool's result list of the map call, by unit index
    map_success,    \* FALSE once a chunk of the map call has put an exception
    number_left,    \* chunks of the map call whose results are outstanding
    results,        \* results of main()
    report,         \* the aggregate of main()
    trace,          \* per unit: what its run_tests invocation did (history)
    coverage_fail_under, \* args.coverage_fail_under, 0 when not given
    percent_covered,     \* <<percent_covered>> once cov.report has returned it
    status,         \* <<status>> once the process has exited
    temp_dir,       \* the temporary directory of the coverage files
    cov_main        \* the coverage operations of main()

vars == <<pc, jobs, cpu_count, coverage, failfast_arg, process_count, discover_suite,
          fixtures, test_suites, failfast, taskqueue, worker, map_value, map_success, number_left,
          results, report, trace, coverage_fail_under, percent_covered, status, temp_dir, cov_main>>

(***************************************************************************)
(* Bounds of the model                                                     *)
(***************************************************************************)
MaxUnits == 2       \* test suites of a run: 0..MaxUnits
MaxJobs == 2        \* args.jobs of a run: 1..MaxJobs
MaxNodes == 7       \* nodes of a discovered suite: 1..MaxNodes
MaxSizeUnits == 5   \* test suites when sizing the pool: 0..MaxSizeUnits
MaxSizeJobs == 4    \* args.jobs when sizing the pool: -MaxSizeJobs..MaxSizeJobs, and 100
MaxSizeCpu == 4     \* host cores when sizing the pool: 1..MaxSizeCpu, and 32

Max(a, b) == IF a >= b THEN a ELSE b
Min(a, b) == IF a <= b THEN a ELSE b

(***************************************************************************)
(* Pool sizing, main() lines 72-74 and 93                                  *)
(***************************************************************************)
\* process_count = max(0, args.jobs); if process_count == 0: cpu_count()
ProcessCountNoFloor(j, cores) == IF j = 0 THEN cores ELSE j
ProcessCountArgs(j, cores) ==
    LET count == Max(0, j) IN IF count = 0 THEN cores ELSE count

\* process_count = max(1, min(len(test_suites), process_count))
ProcessCountMinOnly(n, count) == Min(n, count)
ProcessCountClamp(n, count) == Max(1, Min(n, count))

(***************************************************************************)
(* The discovered suite: a TestSuite holds its tests in order, a TestCase  *)
(* is a leaf.  Every node carries its path from the root as identity, as   *)
(* the objects of the discovered suite are distinct.                       *)
(***************************************************************************)
TestCase(path) == [leaf |-> TRUE, id |-> path, tests |-> <<>>]
TestSuite(path, ts) == [leaf |-> FALSE, id |-> path, tests |-> ts]

RECURSIVE Flatten(_)
Flatten(seqs) == IF seqs = <<>> THEN <<>> ELSE Head(seqs) \o Flatten(Tail(seqs))

\* suites with exactly n nodes rooted at path / sequences of suites with m nodes in all
RECURSIVE SuitesOf(_, _), TestsOf(_, _, _)
SuitesOf(n, path) ==
    IF n = 1 THEN {TestCase(path), TestSuite(path, <<>>)}
    ELSE {TestSuite(path, ts) : ts \in TestsOf(n - 1, path, 1)}
TestsOf(m, path, i) ==
    IF m = 0 THEN {<<>>}
    ELSE UNION {{<<t>> \o ts : t \in SuitesOf(k, Append(path, i)),
                              ts \in TestsOf(m - k, path, i + 1)} : k \in 1..m}

\* TestLoader.discover returns a TestSuite
DiscoverSuites == {s \in UNION {SuitesOf(n, <<>>) : n \in 1..MaxNodes} : ~s.leaf}

\* TestSuite.countTestCases / TestCase.countTestCases
RECURSIVE countTestCases(_)
countTestCases(suite) ==
    IF suite.leaf THEN 1
    ELSE LET RECURSIVE Sum(_)
             Sum(i) == IF i = 0 THEN 0 ELSE Sum(i - 1) + countTestCases(suite.tests[i])
         IN Sum(Len(suite.tests))

\* for module_suite in test_suite: if module_suite.countTestCases(): yield module_suite
iter_module_suites(test_suite) ==
    SelectSeq(test_suite.tests, LAMBDA module_suite : countTestCases(module_suite) # 0)

\* has_cases = any(isinstance(suite, TestCase) for suite in test_suite)
has_cases(test_suite) == \E i \in 1..Len(test_suite.tests) : test_suite.tests[i].leaf

RECURSIVE iter_class_suites_split(_)
iter_class_suites_split(test_suite) ==
    IF test_suite.leaf THEN <<test_suite>>
    ELSE IF \A i \in 1..Len(test_suite.tests) : test_suite.tests[i].leaf
    THEN <<test_suite>>
    ELSE Flatten([i \in 1..Len(test_suite.tests) |->
                    iter_class_suites_split(test_suite.tests[i])])

RECURSIVE iter_class_suites_descend(_)
iter_class_suites_descend(test_suite) ==
    (IF has_cases(test_suite) THEN <<test_suite>> ELSE <<>>)
    \o Flatten([i \in 1..Len(test_suite.tests) |->
                  IF test_suite.tests[i].leaf THEN <<>>
                  ELSE iter_class_suites_descend(test_suite.tests[i])])

RECURSIVE iter_class_suites(_)
iter_class_suites(test_suite) ==
    IF has_cases(test_suite) THEN <<test_suite>>
    ELSE Flatten([i \in 1..Len(test_suite.tests) |-> iter_class_suites(test_suite.tests[i])])

RECURSIVE iter_test_cases(_)
iter_test_cases(test_suite) ==
    IF test_suite.leaf THEN <<test_suite>>
    ELSE Flatten([i \in 1..Len(test_suite.tests) |-> iter_test_cases(test_suite.tests[i])])

Fixtures == {"module", "class", "none"}

\* main() lines 84-90
ParallelizableSuites(suite, fx) ==
    IF fx = "module" THEN iter_module_suites(suite)
    ELSE IF fx = "class" THEN iter_class_suites(suite)
    ELSE iter_test_cases(suite)

(***************************************************************************)
(* The external runner: TextTestRunner.run(test_suite) returns a result    *)
(* object.  Every TestCase of the suite ends in one of six ways; with      *)
(* failfast the runner stops at the first error, failure or unexpected     *)
(* success and sets shouldStop.                                            *)
(***************************************************************************)
Endings == {"ok", "error", "failure", "skip", "xfail", "usuccess"}
Stops == {"error", "failure", "usuccess"}

RECURSIVE test_ids(_)
test_ids(suite) ==
    IF suite.leaf THEN <<suite.id>>
    ELSE Flatten([i \in 1..Len(suite.tests) |-> test_ids(suite.tests[i])])

\* the tests of ids that end in one of kinds, in run order, cut after the test at stop_at
Ended(ids, ending, kinds, stop_at) ==
    LET idx == SelectSeq([i \in 1..Len(ids) |-> i],
                         LAMBDA i : i <= stop_at /\ ending[i] \in kinds)
    IN [k \in 1..Len(idx) |-> <<ids[idx[k]], ending[idx[k]]>>]

\* the result object of runner.run(test_suite) when test i ends as ending[i]
RunnerResult(suite, ending, ff) ==
    LET ids == test_ids(suite)
        stopping == {i \in 1..Len(ids) : ending[i] \in Stops}
        stop_at == IF ff /\ stopping # {}
                   THEN CHOOSE i \in stopping : \A j \in stopping : i <= j
                   ELSE Len(ids)
    IN [testsRun |-> stop_at,
        errors |-> Ended(ids, ending, {"error"}, stop_at),
        failures |-> Ended(ids, ending, {"failure"}, stop_at),
        skipped |-> Ended(ids, ending, {"skip"}, stop_at),
        expectedFailures |-> Ended(ids, ending, {"xfail"}, stop_at),
        unexpectedSuccesses |-> Ended(ids, ending, {"usuccess"}, stop_at),
        shouldStop |-> ff /\ stopping # {}]

RunnerResults(suite, ff) ==
    {RunnerResult(suite, ending, ff) : ending \in [1..countTestCases(suite) -> Endings]}

(***************************************************************************)
(* ParallelTestManager                                                     *)
(***************************************************************************)
separator1 == "======"
separator2 == "------"

\* _format_error(result, error): the four lines of the report of one error
format_error(error) == <<separator1, error[1], separator2, error[2]>>

\* the value run_tests returns when failfast is set, line 256
FailFastResult == <<0, <<>>, <<>>, 0, 0, 0>>

\* the value run_tests returns after a run, lines 274-281
RunTestsResult(result) ==
    <<result.testsRun,
      [k \in 1..Len(result.errors) |-> format_error(result.errors[k])],
      [k \in 1..Len(result.failures) |-> format_error(result.failures[k])],
      Len(result.skipped),
      Len(result.expectedFailures),
      Len(result.unexpectedSuccesses)>>

\* manager.Event: is_set() and set()
EventToggle(flag) == ~flag
EventSet(flag) == TRUE
EventIsSetStale(flag) == FALSE
EventIsSet(flag) == flag

\* _coverage(args, temp_dir): entering starts a fresh Coverage, leaving stops and saves it
CoverageEnter(cov) == IF cov THEN <<"create", "start">> ELSE <<>>
CoverageExit(cov) == IF cov THEN <<"stop", "save">> ELSE <<>>

(***************************************************************************)
(* multiprocessing.Pool.map, as main() line 107 uses it: the units are cut *)
(* into chunks of consecutive units, a pool process takes the next chunk,  *)
(* calls run_tests on its units in order and puts the chunk's results      *)
(* back, and the results are stored by the chunk's position.               *)
(***************************************************************************)
MapChunkSize(n, procs) ==
    IF n = 0 THEN 0
    ELSE (n \div (procs * 4)) + (IF n % (procs * 4) # 0 THEN 1 ELSE 0)

MapChunkCount(n, size) ==
    IF n = 0 THEN 0 ELSE (n \div size) + (IF n % size # 0 THEN 1 ELSE 0)

\* chunk c holds the units (c - 1) * size + 1 .. min(c * size, n)
MapChunk(c, n, size) ==
    [k \in 1..(Min(c * size, n) - (c - 1) * size) |-> (c - 1) * size + k]

MapTasks(n, procs) ==
    LET size == MapChunkSize(n, procs)
    IN [c \in 1..MapChunkCount(n, size) |-> [chunk |-> c, units |-> MapChunk(c, n, size)]]

\* the results of a chunk are stored at the places of the chunk's units
MapResultAppend(value, units, out) ==
    LET filled == SelectSeq(value, LAMBDA v : v # <<>>)
        all == filled \o out
    IN [i \in 1..Len(value) |-> IF i <= Len(all) THEN all[i] ELSE <<>>]
MapResultSet(value, units, out) ==
    [i \in 1..Len(value) |->
        IF \E k \in 1..Len(units) : units[k] = i
        THEN out[CHOOSE k \in 1..Len(units) : units[k] = i]
        ELSE value[i]]

NoResult == [testsRun |-> 0, errors |-> <<>>, failures |-> <<>>, skipped |-> <<>>,
             expectedFailures |-> <<>>, unexpectedSuccesses |-> <<>>, shouldStop |-> FALSE]

IdleWorker == [pc |-> "idle", chunk |-> 0, units |-> <<>>, unit |-> 0, out |-> <<>>,
               result |-> NoResult]

\* what is recorded of the run_tests invocations of one unit
NoTrace == [calls |-> 0,              \* calls of run_tests on the unit
            set_at_call |-> FALSE,    \* failfast when run_tests was called
            is_set |-> <<>>,          \* what failfast.is_set() returned to the call
            cov |-> <<>>,             \* the coverage operations of the call
            runs |-> 0,               \* calls of runner.run on the unit
            result |-> NoResult,      \* the runner's result
            sets |-> 0,               \* calls of failfast.set()
            set_first |-> FALSE,      \* the call's failfast.set() was the first to set it
            set_at_return |-> FALSE,  \* failfast when run_tests returned
            returned |-> <<>>,        \* the value run_tests returned
            raised |-> FALSE,         \* the call raised an exception
            left |-> 0]               \* chunks outstanding when the value was put

(***************************************************************************)
(* main() after the map call: the aggregate, the exit status, the coverage *)
(* report.                                                                 *)
(***************************************************************************)
\* lines 112-117
NoReport == [tests_run |-> 0, errors |-> <<>>, failures |-> <<>>, skipped |-> 0,
             expected_failures |-> 0, unexpected_successes |-> 0]

\* lines 119-124: one turn of the loop over results
AggregateResultPrepend(acc, result) ==
    [tests_run |-> acc.tests_run + result[1],
     errors |-> result[2] \o acc.errors,
     failures |-> result[3] \o acc.failures,
     skipped |-> acc.skipped + result[4],
     expected_failures |-> acc.expected_failures + result[5],
     unexpected_successes |-> acc.unexpected_successes + result[6]]
AggregateResult(acc, result) ==
    [tests_run |-> acc.tests_run + result[1],
     errors |-> acc.errors \o result[2],
     failures |-> acc.failures \o result[3],
     skipped |-> acc.skipped + result[4],
     expected_failures |-> acc.expected_failures + result[5],
     unexpected_successes |-> acc.unexpected_successes + result[6]]

\* lines 118-124: for result in results
AggregateLast(acc, rs) ==
    IF rs = <<>> THEN acc ELSE AggregateResult(acc, rs[Len(rs)])
RECURSIVE AggregateLoop(_, _)
AggregateLoop(acc, rs) ==
    IF rs = <<>> THEN acc ELSE AggregateLoop(AggregateResult(acc, Head(rs)), Tail(rs))

\* line 125
IsSuccessNoUnexpected(errors, failures, unexpected_successes) ==
    ~(errors # <<>> \/ failures # <<>>)
IsSuccess(errors, failures, unexpected_successes) ==
    ~(errors # <<>> \/ failures # <<>> \/ unexpected_successes # 0)

\* lines 111-125
Aggregate(rs) ==
    LET a == AggregateLoop(NoReport, rs)
    IN [tests_run |-> a.tests_run, errors |-> a.errors, failures |-> a.failures,
        skipped |-> a.skipped, expected_failures |-> a.expected_failures,
        unexpected_successes |-> a.unexpected_successes,
        is_success |-> IsSuccess(a.errors, a.failures, a.unexpected_successes)]

\* line 158: the status of parser.exit
FailureStatus(r) == Len(r.errors) + Len(r.failures) + r.unexpected_successes

\* line 161: the coverage report is reached by a successful run with coverage
ReportsCoverageAlways(is_success, cov) == cov
ReportsCoverage(is_success, cov) == is_success /\ cov

\* line 182
FailsUnder(fail_under, percent) == fail_under # 0 /\ percent < fail_under

\* line 183: the status of parser.exit
CoverageStatus == 2

\* args.coverage_fail_under of a run, and what cov.report may return
FailUnders == {0, 50}
PercentsCovered == {40, 50, 60}

Workers == DOMAIN worker
Units == DOMAIN test_suites

(***************************************************************************)
(* Initial states                                                          *)
(***************************************************************************)
\* a discovered suite of n test cases in one module and class each
FlatSuite(n) == TestSuite(<<>>, [i \in 1..n |-> TestCase(<<i>>)])

InitRest ==
    /\ pc = "args"
    /\ process_count = 0
    /\ test_suites = <<>>
    /\ failfast = FALSE
    /\ taskqueue = <<>>
    /\ worker = <<>>
    /\ map_value = <<>>
    /\ map_success = TRUE
    /\ number_left = 0
    /\ results = <<>>
    /\ report = <<>>
    /\ trace = <<>>
    /\ percent_covered = <<>>
    /\ status = <<>>
    /\ temp_dir = "none"
    /\ cov_main = <<>>

\* a run of test cases, each a test suite of its own or all in the one suite of their class
Init ==
    /\ jobs \in 1..MaxJobs
    /\ cpu_count = 1
    /\ coverage \in BOOLEAN
    /\ coverage_fail_under \in {f \in FailUnders : coverage \/ f = 0}
    /\ failfast_arg \in BOOLEAN
    /\ discover_suite \in {FlatSuite(n) : n \in 0..MaxUnits}
    /\ fixtures \in {"none", "class"}
    /\ InitRest

\* the main process up to the map call, for any request, host and number of suites
InitSize ==
    /\ jobs \in (-MaxSizeJobs..MaxSizeJobs) \cup {100}
    /\ cpu_count \in (1..MaxSizeCpu) \cup {32}
    /\ coverage = FALSE
    /\ coverage_fail_under = 0
    /\ failfast_arg = FALSE
    /\ discover_suite \in {FlatSuite(n) : n \in 0..MaxSizeUnits}
    /\ fixtures = "none"
    /\ InitRest

\* the partition of any discovered suite
InitPartition ==
    /\ jobs = 0
    /\ cpu_count = 1
    /\ coverage = FALSE
    /\ coverage_fail_under = 0
    /\ failfast_arg = FALSE
    /\ discover_suite \in DiscoverSuites
    /\ fixtures \in Fixtures
    /\ InitRest

(***************************************************************************)
(* main()                                                                  *)
(***************************************************************************)
\* lines 72-74
MainProcessCount ==
    /\ pc = "args"
    /\ process_count' = ProcessCountArgs(jobs, cpu_count)
    /\ pc' = "discover"
    /\ UNCHANGED <<jobs, cpu_count, coverage, failfast_arg, discover_suite, fixtures,
                   test_suites, failfast, taskqueue, worker, map_value, map_success, number_left,
                   results, report, trace,
                   coverage_fail_under, percent_covered, status, temp_dir, cov_main>>

\* lines 77-90: the temporary directory, discovery under _coverage, the partition
MainPartition ==
    /\ pc = "discover"
    /\ temp_dir' = "created"
    /\ cov_main' = CoverageEnter(coverage) \o CoverageExit(coverage)
    /\ test_suites' = ParallelizableSuites(discover_suite, fixtures)
    /\ pc' = "clamp"
    /\ UNCHANGED <<jobs, cpu_count, coverage, failfast_arg, process_count, discover_suite,
                   fixtures, failfast, taskqueue, worker, map_value, map_success, number_left,
                   results, report, trace,
                   coverage_fail_under, percent_covered, status>>

\* line 93
MainClamp ==
    /\ pc = "clamp"
    /\ process_count' = ProcessCountClamp(Len(test_suites), process_count)
    /\ pc' = "pool"
    /\ UNCHANGED <<jobs, cpu_count, coverage, failfast_arg, discover_suite, fixtures,
                   test_suites, failfast, taskqueue, worker, map_value, map_success, number_left,
                   results, report, trace,
                   coverage_fail_under, percent_covered, status, temp_dir, cov_main>>

\* lines 105-107: the pool, the manager's event, and the map call's tasks
PoolMap ==
    /\ pc = "pool"
    /\ worker' = [w \in 1..process_count |-> IdleWorker]
    /\ failfast' = FALSE
    /\ taskqueue' = MapTasks(Len(test_suites), process_count)
    /\ map_value' = [i \in 1..Len(test_suites) |-> <<>>]
    /\ map_success' = TRUE
    /\ number_left' = Len(taskqueue')
    /\ trace' = [i \in 1..Len(test_suites) |-> NoTrace]
    /\ pc' = "map"
    /\ UNCHANGED <<jobs, cpu_count, coverage, failfast_arg, process_count, discover_suite,
                   fixtures, test_suites, results, report,
                   coverage_fail_under, percent_covered, status, temp_dir, cov_main>>

\* line 107: map returns once every chunk's results are in
MapReturn ==
    /\ pc = "map"
    /\ number_left = 0
    /\ map_success
    /\ results' = map_value
    /\ pc' = "aggregate"
    /\ UNCHANGED <<jobs, cpu_count, coverage, failfast_arg, process_count, discover_suite,
                   fixtures, test_suites, failfast, taskqueue, worker, map_value, map_success,
                   number_left, report, trace,
                   coverage_fail_under, percent_covered, status, temp_dir, cov_main>>

\* lines 111-125
MainAggregate ==
    /\ pc = "aggregate"
    /\ report' = Aggregate(results)
    /\ pc' = "status"
    /\ UNCHANGED <<jobs, cpu_count, coverage, failfast_arg, process_count, discover_suite,
                   fixtures, test_suites, failfast, taskqueue, worker, map_value, map_success,
                   number_left, results, trace,
                   coverage_fail_under, percent_covered, status, temp_dir, cov_main>>

\* lines 157-158: parser.exit leaves the with block of line 77, which removes the directory
MainExitFailure ==
    /\ pc = "status"
    /\ ~report.is_success
    /\ status' = <<FailureStatus(report)>>
    /\ temp_dir' = "removed"
    /\ pc' = "exit"
    /\ UNCHANGED <<jobs, cpu_count, coverage, failfast_arg, process_count, discover_suite,
                   fixtures, test_suites, failfast, taskqueue, worker, map_value, map_success,
                   number_left, results, report, trace,
                   coverage_fail_under, percent_covered, cov_main>>

\* lines 161-179: combine the coverage files and report
MainCoverageReport ==
    /\ pc = "status"
    /\ ReportsCoverage(report.is_success, coverage)
    /\ cov_main' = cov_main \o <<"combine", "report">>
    /\ \E percent \in PercentsCovered : percent_covered' = <<percent>>
    /\ pc' = "fail_under"
    /\ UNCHANGED <<jobs, cpu_count, coverage, failfast_arg, process_count, discover_suite,
                   fixtures, test_suites, failfast, taskqueue, worker, map_value, map_success,
                   number_left, results, report, trace,
                   coverage_fail_under, status, temp_dir>>

\* lines 182-183: parser.exit(status=2), or main() returns
MainFailUnder ==
    /\ pc = "fail_under"
    /\ cov_main' = cov_main \o <<"fail_under">>
    /\ status' = IF FailsUnder(coverage_fail_under, percent_covered[1])
                 THEN <<CoverageStatus>> ELSE <<0>>
    /\ temp_dir' = "removed"
    /\ pc' = "exit"
    /\ UNCHANGED <<jobs, cpu_count, coverage, failfast_arg, process_count, discover_suite,
                   fixtures, test_suites, failfast, taskqueue, worker, map_value, map_success,
                   number_left, results, report, trace,
                   coverage_fail_under, percent_covered>>

\* lines 157, 161: a successful run without coverage returns from main()
MainReturn ==
    /\ pc = "status"
    /\ report.is_success
    /\ ~coverage
    /\ status' = <<0>>
    /\ temp_dir' = "removed"
    /\ pc' = "exit"
    /\ UNCHANGED <<jobs, cpu_count, coverage, failfast_arg, process_count, discover_suite,
                   fixtures, test_suites, failfast, taskqueue, worker, map_value, map_success,
                   number_left, results, report, trace,
                   coverage_fail_under, percent_covered, cov_main>>

(***************************************************************************)
(* The pool processes                                                      *)
(***************************************************************************)
main_vars == <<pc, jobs, cpu_count, coverage, failfast_arg, process_count, discover_suite,
               fixtures, test_suites, results, report,
               coverage_fail_under, percent_covered, status, temp_dir, cov_main>>

\* where a pool process goes after a unit: the chunk's next unit, or putting the results
AfterUnit(w) == IF worker[w].units = <<>> THEN "put" ELSE "call"

\* a pool process takes the next chunk of the task queue; the pool processes are
\* alike, so the idle one of lowest number stands for whichever idle one takes it
TakeTaskKeep(queue) == queue
TakeTask(queue) == Tail(queue)

WorkerGet(w) ==
    /\ pc = "map"
    /\ worker[w].pc = "idle"
    /\ \A v \in Workers : v < w => worker[v].pc # "idle"
    /\ taskqueue # <<>>
    /\ worker' = [worker EXCEPT ![w] = [@ EXCEPT !.pc = "call",
                                                 !.chunk = Head(taskqueue).chunk,
                                                 !.units = Head(taskqueue).units,
                                                 !.out = <<>>]]
    /\ taskqueue' = TakeTask(taskqueue)
    /\ UNCHANGED <<main_vars, failfast, map_value, map_success, number_left, trace>>

\* the pool process calls test_manager.run_tests on the chunk's next unit
RunTestsCall(w) ==
    /\ worker[w].pc = "call"
    /\ LET i == Head(worker[w].units)
       IN /\ worker' = [worker EXCEPT ![w] = [@ EXCEPT !.pc = "is_set", !.unit = i,
                                                       !.units = Tail(@)]]
          /\ trace' = [trace EXCEPT ![i] = [@ EXCEPT !.calls = @ + 1,
                                                     !.set_at_call = failfast]]
    /\ UNCHANGED <<main_vars, failfast, taskqueue, map_value, map_success, number_left>>

\* lines 255-259: return at once if failfast is set, else enter _coverage
ShortCircuitNever(is_set) == FALSE
ShortCircuit(is_set) == is_set

RunTestsIsSet(w) ==
    /\ worker[w].pc = "is_set"
    /\ LET i == worker[w].unit
           is_set == EventIsSet(failfast)
       IN IF ShortCircuit(is_set)
          THEN /\ worker' = [worker EXCEPT ![w] = [@ EXCEPT !.pc = AfterUnit(w), !.unit = 0,
                                                            !.out = Append(@, FailFastResult)]]
               /\ trace' = [trace EXCEPT ![i] = [@ EXCEPT !.is_set = Append(@, is_set),
                                                          !.set_at_return = failfast,
                                                          !.returned = FailFastResult]]
          ELSE /\ worker' = [worker EXCEPT ![w] = [@ EXCEPT !.pc = "run"]]
               /\ trace' = [trace EXCEPT ![i] = [@ EXCEPT !.is_set = Append(@, is_set),
                                                          !.cov = @ \o CoverageEnter(coverage)]]
    /\ UNCHANGED <<main_vars, failfast, taskqueue, map_value, map_success, number_left>>

\* lines 260-267: the runner runs the unit
RunTestsRun(w) ==
    /\ worker[w].pc = "run"
    /\ LET i == worker[w].unit
       IN \E result \in RunnerResults(test_suites[i], failfast_arg) :
            /\ worker' = [worker EXCEPT ![w] = [@ EXCEPT !.pc = "should_stop",
                                                         !.result = result]]
            /\ trace' = [trace EXCEPT ![i] = [@ EXCEPT !.runs = @ + 1,
                                                       !.result = result]]
    /\ UNCHANGED <<main_vars, failfast, taskqueue, map_value, map_success, number_left>>

\* lines 270-271: if result.shouldStop: self.failfast.set()
SetsFailFastNever(result) == FALSE
SetsFailFast(result) == result.shouldStop

RunTestsShouldStop(w) ==
    /\ worker[w].pc = "should_stop"
    /\ LET i == worker[w].unit
       IN IF SetsFailFast(worker[w].result)
          THEN /\ failfast' = EventSet(failfast)
               /\ trace' = [trace EXCEPT ![i] = [@ EXCEPT !.sets = @ + 1,
                                                          !.set_first = ~failfast]]
          ELSE UNCHANGED <<failfast, trace>>
    /\ worker' = [worker EXCEPT ![w] = [@ EXCEPT !.pc = "return"]]
    /\ UNCHANGED <<main_vars, taskqueue, map_value, map_success, number_left>>

\* lines 274-281, and leaving _coverage: the value does not depend on failfast
ReturnValueUnlessSet(result, flag) == IF flag THEN FailFastResult ELSE RunTestsResult(result)
ReturnValue(result, flag) == RunTestsResult(result)

RunTestsReturn(w) ==
    /\ worker[w].pc = "return"
    /\ LET i == worker[w].unit
           value == ReturnValue(worker[w].result, failfast)
       IN /\ worker' = [worker EXCEPT ![w] = [@ EXCEPT !.pc = AfterUnit(w), !.unit = 0,
                                                       !.result = NoResult,
                                                       !.out = Append(@, value)]]
          /\ trace' = [trace EXCEPT ![i] = [@ EXCEPT !.cov = @ \o CoverageExit(coverage),
                                                     !.set_at_return = failfast,
                                                     !.returned = value]]
    /\ UNCHANGED <<main_vars, failfast, taskqueue, map_value, map_success, number_left>>

\* the map call counts a chunk off when its outcome is put
NumberLeftKept(left) == left
NumberLeftAfterPut(left) == left - 1

\* the pool process puts the chunk's results, which the map call stores unless a
\* chunk has put an exception
WorkerPut(w) ==
    /\ worker[w].pc = "put"
    /\ LET units == MapChunk(worker[w].chunk, Len(test_suites),
                             MapChunkSize(Len(test_suites), process_count))
       IN /\ map_value' = IF map_success
                          THEN MapResultSet(map_value, units, worker[w].out)
                          ELSE map_value
          /\ trace' = [i \in Units |->
                         IF \E k \in 1..Len(units) : units[k] = i
                         THEN [trace[i] EXCEPT !.left = number_left]
                         ELSE trace[i]]
    /\ number_left' = NumberLeftAfterPut(number_left)
    /\ worker' = [worker EXCEPT ![w] = IdleWorker]
    /\ UNCHANGED <<main_vars, failfast, taskqueue, map_success>>

(***************************************************************************)
(* A run_tests call that raises: runner.run(test_suite) raises inside the  *)
(* with block of line 259.  _coverage's finally clause runs, the exception *)
(* ends the pool process's chunk, the pool process puts the exception, the *)
(* map call keeps the first exception and, once every chunk has put, raises *)
(* it in main() at line 107.                                               *)
(***************************************************************************)
\* lines 203-214: try ... finally: cov.stop(); cov.save()
CoverageExitSkipped(cov) == <<>>
CoverageExitOnRaise(cov) == CoverageExit(cov)

\* lines 259-267: runner.run raises, the with block is left by the exception
RunTestsRaise(w) ==
    /\ worker[w].pc = "run"
    /\ LET i == worker[w].unit
       IN /\ worker' = [worker EXCEPT ![w] = [@ EXCEPT !.pc = "put_error", !.unit = 0,
                                                       !.units = <<>>, !.out = <<>>]]
          /\ trace' = [trace EXCEPT ![i] = [@ EXCEPT !.runs = @ + 1,
                                                     !.cov = @ \o CoverageExitOnRaise(coverage),
                                                     !.set_at_return = failfast,
                                                     !.raised = TRUE]]
    /\ UNCHANGED <<main_vars, failfast, taskqueue, map_value, map_success, number_left>>

\* the pool process puts the exception as the outcome of its chunk
WorkerPutError(w) ==
    /\ worker[w].pc = "put_error"
    /\ map_success' = FALSE
    /\ number_left' = NumberLeftAfterPut(number_left)
    /\ worker' = [worker EXCEPT ![w] = IdleWorker]
    /\ UNCHANGED <<main_vars, failfast, taskqueue, map_value, trace>>

\* the uncaught exception's exit status of the interpreter
UncaughtStatus == 1

\* line 107: pool.map raises the exception once every chunk has put; main() has no
\* handler, the with blocks of lines 105 and 77 are left and the process ends
MapRaise ==
    /\ pc = "map"
    /\ number_left = 0
    /\ ~map_success
    /\ status' = <<UncaughtStatus>>
    /\ temp_dir' = "removed"
    /\ pc' = "exit"
    /\ UNCHANGED <<jobs, cpu_count, coverage, failfast_arg, process_count, discover_suite,
                   fixtures, test_suites, failfast, taskqueue, worker, map_value,
                   map_success, number_left, results, report, trace,
                   coverage_fail_under, percent_covered, cov_main>>

Next ==
    \/ MainProcessCount
    \/ MainPartition
    \/ MainClamp
    \/ PoolMap
    \/ MapReturn
    \/ MainAggregate
    \/ MainExitFailure
    \/ MainCoverageReport
    \/ MainFailUnder
    \/ MainReturn
    \/ \E w \in Workers : WorkerGet(w)
    \/ \E w \in Workers : RunTestsCall(w)
    \/ \E w \in Workers : RunTestsIsSet(w)
    \/ \E w \in Workers : RunTestsRun(w)
    \/ \E w \in Workers : RunTestsShouldStop(w)
    \/ \E w \in Workers : RunTestsReturn(w)
    \/ \E w \in Workers : WorkerPut(w)

Spec == Init /\ [][Next]_vars

\* the steps of main() and of pool process w
MainStep ==
    \/ MainProcessCount
    \/ MainPartition
    \/ MainClamp
    \/ PoolMap
    \/ MapReturn
    \/ MainAggregate
    \/ MainExitFailure
    \/ MainCoverageReport
    \/ MainFailUnder
    \/ MainReturn

WorkerStep(w) ==
    /\ w \in Workers
    /\ \/ WorkerGet(w)
       \/ RunTestsCall(w)
       \/ RunTestsIsSet(w)
       \/ RunTestsRun(w)
       \/ RunTestsShouldStop(w)
       \/ RunTestsReturn(w)
       \/ WorkerPut(w)

\* the operating system gives every process its turn: main() and each pool process
\* take a step that stays possible; runner.run returns
Fairness ==
    /\ WF_vars(MainStep)
    /\ \A w \in 1..MaxJobs : WF_vars(WorkerStep(w))

SpecFair == Init /\ [][Next]_vars /\ Fairness

\* a run of test cases whose run_tests calls may raise
InitRaise ==
    /\ jobs \in 1..MaxJobs
    /\ cpu_count = 1
    /\ coverage \in BOOLEAN
    /\ coverage_fail_under = 0
    /\ failfast_arg \in BOOLEAN
    /\ discover_suite \in {FlatSuite(n) : n \in 0..MaxUnits}
    /\ fixtures = "none"
    /\ InitRest

NextRaise ==
    \/ Next
    \/ \E w \in Workers : RunTestsRaise(w)
    \/ \E w \in Workers : WorkerPutError(w)
    \/ MapRaise

SpecRaise == InitRaise /\ [][NextRaise]_vars

NextSize ==
    \/ MainProcessCount
    \/ MainPartition
    \/ MainClamp
    \/ PoolMap
    \/ MapReturn

SpecSize == InitSize /\ [][NextSize]_vars

NextPartition ==
    \/ MainProcessCount
    \/ MainPartition

SpecPartition == InitPartition /\ [][NextPartition]_vars

(***************************************************************************)
(* Properties                                                              *)
(***************************************************************************)
Returned(i) == trace[i].returned # <<>>
ShortCircuited(i) == trace[i].is_set = <<TRUE>>
PassedCheck(i) == trace[i].is_set = <<FALSE>>
Zeroed(value) == value = <<0, <<>>, <<>>, 0, 0, 0>>
MapReturned == pc \in {"aggregate", "status", "fail_under", "exit"}

\* value is what run_tests makes of the runner's result r: its counts, and one
\* report per error and failure, in the runner's order, naming the test
RealOutcome(value, r) ==
    /\ Len(value) = 6
    /\ value[1] = r.testsRun
    /\ Len(value[2]) = Len(r.errors)
    /\ \A k \in 1..Len(r.errors) : value[2][k][2] = r.errors[k][1]
    /\ Len(value[3]) = Len(r.failures)
    /\ \A k \in 1..Len(r.failures) : value[3][k][2] = r.failures[k][1]
    /\ value[4] = Len(r.skipped)
    /\ value[5] = Len(r.expectedFailures)
    /\ value[6] = Len(r.unexpectedSuccesses)

\* C1: when the map call returns, results has one entry per test suite and entry i
\* is the value that the run_tests call on suite i returned, whatever the order in
\* which the suites were started and completed.
C1_ResultsAligned ==
    MapReturned =>
        /\ Len(results) = Len(test_suites)
        /\ \A i \in Units : Returned(i) /\ results[i] = trace[i].returned

\* a run whose second suite completed before its first, with different results
C1_Witness ==
    /\ MapReturned
    /\ Len(test_suites) = 2
    /\ trace[2].left > trace[1].left
    /\ results[1] # results[2]
    /\ results[2][1] = 1

\* C2: run_tests is called at most once on every suite, and the runner at most once;
\* when the map call returns every suite was called exactly once and has its entry
\* in results, and the entry of a suite that failfast short-circuited is all zero
\* with empty error and failure lists.
C2_ExactlyOnce ==
    /\ \A i \in DOMAIN trace : trace[i].calls <= 1 /\ trace[i].runs <= 1
    /\ MapReturned =>
          /\ Len(results) = Len(test_suites)
          /\ \A i \in Units :
                /\ trace[i].calls = 1
                /\ Len(results[i]) = 6
                /\ ShortCircuited(i) => Zeroed(results[i])

\* a finished run with a short-circuited suite after a suite that ran
C2_Witness ==
    /\ MapReturned
    /\ \E i, j \in Units : ShortCircuited(i) /\ PassedCheck(j) /\ trace[j].runs = 1

\* C3: a run_tests call to which is_set() returned true returns the all-zero value
\* without calling the runner and without any coverage operation.
C3_ShortCircuit ==
    \A i \in DOMAIN trace :
        /\ Len(trace[i].is_set) <= 1
        /\ ShortCircuited(i) =>
              /\ Zeroed(trace[i].returned)
              /\ trace[i].runs = 0
              /\ trace[i].cov = <<>>

\* with coverage on, a short-circuited suite beside one that measured coverage
C3_Witness ==
    /\ coverage
    /\ \E i, j \in DOMAIN trace :
          /\ ShortCircuited(i) /\ Returned(i)
          /\ trace[j].cov = <<"create", "start", "stop", "save">>

\* C4: a run_tests call that begins when failfast is already set never calls the
\* runner and returns the all-zero value.
C4_NoStartAfterSet ==
    \A i \in DOMAIN trace :
        trace[i].calls = 1 /\ trace[i].set_at_call =>
            /\ trace[i].runs = 0
            /\ \A w \in Workers : worker[w].unit = i => worker[w].pc = "is_set"
            /\ Returned(i) => Zeroed(trace[i].returned)

\* a call that began after the signal was set has returned
C4_Witness ==
    \E i \in DOMAIN trace : trace[i].set_at_call /\ Returned(i) /\ failfast_arg

\* C5 as stated: a suite whose run_tests call a pool process began before failfast
\* was set returns its runner's outcome.
C5_DispatchedBeforeSet ==
    \A i \in DOMAIN trace :
        trace[i].calls = 1 /\ ~trace[i].set_at_call /\ Returned(i) =>
            trace[i].runs = 1 /\ RealOutcome(trace[i].returned, trace[i].result)

\* C5: a suite whose run_tests call read failfast as unset is never zeroed or
\* dropped: the runner runs it once, the call returns the runner's outcome even if
\* failfast is set meanwhile, and the map call does not return before it.
C5_InFlightCompletes ==
    \A i \in DOMAIN trace :
        PassedCheck(i) =>
            /\ Returned(i) => (/\ trace[i].runs = 1
                               /\ RealOutcome(trace[i].returned, trace[i].result))
            /\ MapReturned => (Returned(i) /\ results[i] = trace[i].returned)

\* a suite that passed the check returned its outcome after another suite set failfast
C5_Witness ==
    \E i, j \in DOMAIN trace :
        /\ i # j
        /\ PassedCheck(i) /\ Returned(i) /\ trace[i].set_at_return
        /\ ~trace[i].result.shouldStop
        /\ trace[i].returned[1] = 1
        /\ trace[j].sets = 1

\* C6: a call whose runner reported shouldStop has called failfast.set() once by the
\* time it returns, and failfast is then set; a call whose runner did not report
\* shouldStop and a short-circuited call never call set(); failfast is set only by
\* such a call.
C6_SetIffShouldStop ==
    /\ \A i \in DOMAIN trace :
          /\ Returned(i) /\ trace[i].result.shouldStop =>
                trace[i].sets = 1 /\ trace[i].set_at_return /\ failfast
          /\ trace[i].sets > 0 => trace[i].result.shouldStop /\ PassedCheck(i)
          /\ ShortCircuited(i) => trace[i].sets = 0
    /\ failfast => \E i \in DOMAIN trace : trace[i].sets > 0

\* a stopping suite, a suite that ran without stopping and a short-circuited suite
C6_Witness ==
    \E i, j \in DOMAIN trace :
        /\ Returned(i) /\ trace[i].result.shouldStop
        /\ Returned(j) /\ PassedCheck(j) /\ ~trace[j].result.shouldStop

\* C7: failfast is false until a worker sets it, every set() leaves it true, and
\* once true it stays true to the end of the run.
SetCalled == /\ DOMAIN trace' = DOMAIN trace
             /\ \E i \in DOMAIN trace : trace'[i].sets > trace[i].sets
FailFastStep ==
    /\ pc = "pool" => ~failfast'
    /\ failfast => failfast'
    /\ SetCalled => failfast'
C7_Monotonic == ~failfast /\ [][FailFastStep]_vars

\* both suites of a run have called set()
C7_Witness ==
    /\ failfast
    /\ \E i, j \in DOMAIN trace : i # j /\ trace[i].sets = 1 /\ trace[j].sets = 1

Sized == pc \in {"pool", "map", "aggregate", "status", "fail_under", "exit"}
Clamp(x, lo, hi) == IF x < lo THEN lo ELSE IF x > hi THEN hi ELSE x

RECURSIVE LeafIds(_)
LeafIds(suite) ==
    IF suite.leaf THEN {suite.id}
    ELSE UNION {LeafIds(suite.tests[i]) : i \in 1..Len(suite.tests)}

\* the suite at path below suite
RECURSIVE SuiteAt(_, _)
SuiteAt(suite, path) ==
    IF path = <<>> THEN suite ELSE SuiteAt(suite.tests[Head(path)], Tail(path))

Partitioned == pc = "clamp"

\* C10: under each of the three options the test suites are suites of the
\* discovered suite, every test case of the discovered suite is in exactly one of
\* them, and there are at most as many of them as test cases.
C10_Partition ==
    Partitioned =>
        LET cases == LeafIds(discover_suite)
        IN /\ \A i \in Units :
                 /\ SuiteAt(discover_suite, test_suites[i].id) = test_suites[i]
                 /\ LeafIds(test_suites[i]) \subseteq cases
           /\ \A id \in cases :
                 Cardinality({i \in Units : id \in LeafIds(test_suites[i])}) = 1
           /\ Len(test_suites) <= Cardinality(cases)

\* class fixtures on a suite with an empty group and a group of a test case and a
\* sub-group, cut in two test suites
C10_Witness ==
    /\ Partitioned
    /\ fixtures = "class"
    /\ Len(test_suites) = 2
    /\ \E i \in Units : \E a, b \in 1..Len(test_suites[i].tests) :
          /\ test_suites[i].tests[a].leaf
          /\ ~test_suites[i].tests[b].leaf
          /\ test_suites[i].tests[b].tests = <<>>

\* the suites and test cases of a suite, itself included
RECURSIVE Nodes(_)
Nodes(suite) ==
    {suite} \cup UNION {Nodes(suite.tests[i]) : i \in 1..Len(suite.tests)}

IsProperPrefix(p, q) == Len(p) < Len(q) /\ \A k \in 1..Len(p) : p[k] = q[k]

\* a group that directly contains a test case
HoldsCase(g) == ~g.leaf /\ \E i \in 1..Len(g.tests) : g.tests[i].leaf
\* the first such groups on the paths from the root
FirstCaseGroups(suite) ==
    {g \in Nodes(suite) :
        /\ HoldsCase(g)
        /\ \A h \in Nodes(suite) : HoldsCase(h) => ~IsProperPrefix(h.id, g.id)}
SingleTestGroup(g) == ~g.leaf /\ Len(g.tests) = 1 /\ g.tests[1].leaf

ClassUnitsAreFirstCaseGroups ==
    /\ {test_suites[i] : i \in Units} = FirstCaseGroups(discover_suite)
    /\ \A i, j \in Units : i < j => test_suites[i] # test_suites[j]

\* C11 as stated: with class fixtures the test suites are the first groups, on each
\* path, that directly contain a test case, each whole (a group of sub-groups and
\* test cases is one test suite), and a group of a single test is the very test
\* suite that _iter_test_cases yields for that group.
C11_SingleTestIdentical ==
    (Partitioned /\ fixtures = "class") =>
        /\ ClassUnitsAreFirstCaseGroups
        /\ \A i \in Units :
              SingleTestGroup(test_suites[i]) =>
                  iter_test_cases(test_suites[i]) = <<test_suites[i]>>

\* C11: with class fixtures the test suites are the first groups, on each path, that
\* directly contain a test case, each whole (a group of sub-groups and test cases is
\* one test suite); a group of a single test is one test suite, the group itself,
\* and holds exactly the test case that _iter_test_cases yields for that group.
C11_ClassSuites ==
    (Partitioned /\ fixtures = "class") =>
        /\ ClassUnitsAreFirstCaseGroups
        /\ \A i \in Units :
              SingleTestGroup(test_suites[i]) =>
                  /\ iter_test_cases(test_suites[i]) = test_suites[i].tests
                  /\ iter_test_cases(test_suites[i]) # <<test_suites[i]>>

\* a group of a test case and a sub-group with a test case, and a group of one test
C11_Witness ==
    /\ Partitioned
    /\ fixtures = "class"
    /\ Len(test_suites) = 2
    /\ \E i, j \in Units :
          /\ SingleTestGroup(test_suites[j])
          /\ \E a, b \in 1..Len(test_suites[i].tests) :
                /\ test_suites[i].tests[a].leaf
                /\ HoldsCase(test_suites[i].tests[b])

Aggregated == pc \in {"status", "fail_under", "exit"}
Exited == pc = "exit"
Has(seq, x) == \E k \in 1..Len(seq) : seq[k] = x

RECURSIVE SumSeq(_)
SumSeq(seq) == IF seq = <<>> THEN 0 ELSE Head(seq) + SumSeq(Tail(seq))

\* the reports of the errors and of the failures of the runner of unit i, in its order
UnitErrors(i) ==
    [k \in 1..Len(trace[i].result.errors) |-> format_error(trace[i].result.errors[k])]
UnitFailures(i) ==
    [k \in 1..Len(trace[i].result.failures) |-> format_error(trace[i].result.failures[k])]

\* C12: the aggregated errors and failures are the reports of the units' runners,
\* unit by unit in the order of test_suites and within a unit in the runner's order,
\* whatever the order in which the pool processes finished the units.
C12_UnitOrder ==
    Aggregated =>
        /\ report.errors = Flatten([i \in Units |-> UnitErrors(i)])
        /\ report.failures = Flatten([i \in Units |-> UnitFailures(i)])

\* the second unit's result was put before the first unit's, and both report an error
C12_Witness ==
    /\ Aggregated
    /\ Len(test_suites) = 2
    /\ trace[2].left > trace[1].left
    /\ Len(UnitErrors(1)) = 1
    /\ Len(UnitErrors(2)) = 1
    /\ report.errors = UnitErrors(1) \o UnitErrors(2)

\* C13: is_success holds exactly when the aggregated errors and failures are empty and
\* unexpected_successes is 0; without coverage the exit status is the number of errors
\* plus failures plus unexpected successes, and is 0 exactly when is_success holds.
C13_SuccessAndStatus ==
    /\ Aggregated =>
          (report.is_success <=>
              (/\ report.errors = <<>>
               /\ report.failures = <<>>
               /\ report.unexpected_successes = 0))
    /\ (Exited /\ ~coverage) =>
          /\ status = <<Len(report.errors) + Len(report.failures)
                           + report.unexpected_successes>>
          /\ (status = <<0>> <=> report.is_success)

\* a run without coverage whose only fault is an unexpected success exits with status 1
C13_Witness ==
    /\ Exited
    /\ ~coverage
    /\ report.errors = <<>>
    /\ report.failures = <<>>
    /\ report.unexpected_successes = 1
    /\ status = <<1>>

\* C14: the process exits with status 2 only when the coverage percentage is below
\* the configured minimum, and a run that is not a success exits with the number of
\* errors plus failures plus unexpected successes.
C14_TwoIsCoverageOnly ==
    Exited =>
        /\ status = <<CoverageStatus>> =>
              (/\ coverage
               /\ percent_covered # <<>>
               /\ FailsUnder(coverage_fail_under, percent_covered[1]))
        /\ ~report.is_success => status = <<FailureStatus(report)>>

\* the runner's counters of unit i
UnitCounts(i) ==
    <<trace[i].result.testsRun, Len(trace[i].result.skipped),
      Len(trace[i].result.expectedFailures), Len(trace[i].result.unexpectedSuccesses)>>
\* the sum of counter c over the units whose call found failfast not set
SumPassed(c) ==
    SumSeq([i \in Units |-> IF PassedCheck(i) THEN UnitCounts(i)[c] ELSE 0])

\* C17: each counter of the aggregate is the sum of the runner's values over the units
\* whose run_tests call found failfast not set; a unit whose call found it set was
\* not run and adds nothing, and every unit is one or the other.
C17_StartedUnitsCounted ==
    Aggregated =>
        /\ report.tests_run = SumPassed(1)
        /\ report.skipped = SumPassed(2)
        /\ report.expected_failures = SumPassed(3)
        /\ report.unexpected_successes = SumPassed(4)
        /\ \A i \in Units :
              /\ PassedCheck(i) \/ ShortCircuited(i)
              /\ PassedCheck(i) => trace[i].runs = 1
              /\ ShortCircuited(i) => (trace[i].runs = 0 /\ Zeroed(results[i]))

\* the first unit ran a test and stopped the run, the second was short-circuited
C17_Witness ==
    /\ Aggregated
    /\ Len(test_suites) = 2
    /\ PassedCheck(1)
    /\ ShortCircuited(2)
    /\ report.tests_run = 1
    /\ report.unexpected_successes = 1

\* C20: a run that is not a success exits with the number of its faults and never
\* combines, reports or checks coverage, so that the fail-under exit happens only
\* after a successful run; the temporary directory exists from discovery until the
\* process exits and is removed when it exits, whichever way it exits.
C20_CoverageAfterSuccess ==
    /\ (Has(cov_main, "combine") \/ Has(cov_main, "report") \/ Has(cov_main, "fail_under"))
          => (Aggregated /\ report.is_success /\ coverage)
    /\ (Exited /\ ~report.is_success) =>
          /\ status = <<FailureStatus(report)>>
          /\ percent_covered = <<>>
    /\ (Exited /\ Has(cov_main, "fail_under")
            /\ FailsUnder(coverage_fail_under, percent_covered[1])) =>
          (status = <<CoverageStatus>> /\ report.is_success)
    /\ Exited => temp_dir = "removed"
    /\ pc \in {"clamp", "pool", "map", "aggregate", "status", "fail_under"} =>
          temp_dir = "created"

\* a run with coverage and a minimum that failed a test has exited
C20_Witness ==
    /\ Exited
    /\ coverage
    /\ coverage_fail_under # 0
    /\ ~report.is_success
    /\ status = <<1>>
    /\ temp_dir = "removed"

Raised(i) == trace[i].raised
Reported == DOMAIN report # {}
\* unit i is inside the with block of line 259
InCoverage(i) ==
    \E w \in Workers : worker[w].unit = i /\ worker[w].pc \in {"run", "should_stop", "return"}

\* C15: with coverage, a run_tests call that started coverage has stopped and saved
\* it once the call has returned or raised, coverage is started and not stopped only
\* while the call is inside the with block, and a call that returned at once because
\* failfast was set, or a call without coverage, makes no coverage call at all.
C15_CoverageReleased ==
    \A i \in DOMAIN trace :
        /\ trace[i].cov \in {<<>>, <<"create", "start">>,
                              <<"create", "start", "stop", "save">>}
        /\ trace[i].cov = <<"create", "start">> => InCoverage(i)
        /\ ((Returned(i) \/ Raised(i)) /\ PassedCheck(i) /\ coverage) =>
              trace[i].cov = <<"create", "start", "stop", "save">>
        /\ (ShortCircuited(i) \/ ~coverage) => trace[i].cov = <<>>

\* with coverage, a call raised and its coverage was stopped and saved
C15_Witness ==
    \E i \in DOMAIN trace :
        /\ coverage
        /\ Raised(i)
        /\ trace[i].cov = <<"create", "start", "stop", "save">>

\* C16: when a run_tests call raises the run still ends with the aggregate: the map
\* call gives main() a result for every test suite, main() aggregates them, and the
\* exit status is that of the aggregate.
C16_RaiseIsAggregated ==
    (Exited /\ \E i \in DOMAIN trace : Raised(i)) =>
        /\ Len(results) = Len(test_suites)
        /\ Reported

AllReturned == \A i \in DOMAIN trace : Returned(i)
Called(i) == i \in DOMAIN trace /\ trace[i].calls > 0

\* C18: with every process taking its turn and every runner.run returning, the run
\* ends: every test suite on which run_tests was called gets its value returned,
\* main() aggregates only when the map call has every result, and the process exits.
C18_Terminates ==
    /\ <>Exited
    /\ \A i \in 1..MaxUnits : Called(i) ~> (Called(i) /\ Returned(i))
    /\ [](MapReturned => (AllReturned /\ number_left = 0 /\ taskqueue = <<>>))

\* two pool processes ran a test case each, and the process has exited
C18_Witness ==
    /\ Exited
    /\ process_count = 2
    /\ Len(test_suites) = 2
    /\ \A i \in Units : PassedCheck(i) /\ Returned(i)

\* the units that are past the failfast check and not yet returned
InFlight == {i \in DOMAIN trace : PassedCheck(i) /\ ~Returned(i)}
\* the units, other than the one that set failfast first, that returned the value
\* of a run while failfast was set
Overshoot ==
    {i \in DOMAIN trace :
        PassedCheck(i) /\ Returned(i) /\ trace[i].set_at_return /\ ~trace[i].set_first}

FirstSetStep ==
    (~failfast /\ failfast') =>
        Cardinality({i \in InFlight : trace'[i].sets = trace[i].sets}) <= process_count - 1

====
